---- MODULE Spec2Model ----
(***************************************************************************)
(* Model of the akari VM daemon (crates/server/src/main.rs): the Lifecycle *)
(* RPC service (ApiServer), the container state registry behind its        *)
(* reader/writer lock, the bounded command and reply channels, and the     *)
(* command dispatch loop (handle_cmd) that owns the VM backend.            *)
(***************************************************************************)
EXTENDS Integers, Sequences, FiniteSets, TLC

\* ---------------------------------------------------------------- bounds
\* Number of RPC tasks that can be in flight at once.
NumTasks == 2
\* Number of RPCs the clients issue in one run.
MaxCalls == 2
\* Number of RPCs issued in the runs that fill the command channel.
MaxCallsOne == 9
\* Number of commands buffered in the command channel when SpecCmd starts.
MaxQueued == 2
\* Container identifiers clients use.
Ids == {"c1", "c2"}
\* Bundle path of the create requests the clients send.
NewBundle == "/tmp/b2"

Tasks == 1..NumTasks

\* ------------------------------------------------------ program constants
DEFAULT_MIN_PORT == 1234
\* mpsc::channel::<api::Command>(8)
CmdCap == 8
\* mpsc::channel::<(u32, Vec<u8>)>(8)
DataCap == 8

\* api::VmStatus
VmStatus == {"Creating", "Created", "Running", "Stopped"}

VARIABLES
    state_map,   \* ContainerStateMap: container id -> ContainerState
    lock,        \* the RwLock around state_map: [writer, readers]
    cmd_q,       \* messages buffered in the command channel
    cmd_open,    \* cmd_rx has not been dropped
    data_q,      \* messages buffered in the reply channel
    data_open,   \* data_tx has not been dropped
    data_rx_open,\* data_rx has not been dropped
    vm_pc,       \* position of the VM task: init, recv, call, terminated
    vm_cmd,      \* the command handle_cmd has dequeued and is executing
    main_pc,     \* position of main: start, serving, exited
    task,        \* the RPC tasks in flight: [pc, op, id, bundle, port, wait]
    resp,        \* the answer sent last to a client: [op, id, result]
    calls,       \* number of RPCs issued so far
    sent,        \* history: the commands the command channel accepted
    backend      \* history: the calls handle_cmd made on the Vm

vars == <<state_map, lock, cmd_q, cmd_open, data_q, data_open, data_rx_open,
          vm_pc, vm_cmd, main_pc, task, resp, calls, sent, backend>>

\* ------------------------------------------------------------- data types
\* api::Command as used by the server; port and data are 0 / NoData when the
\* variant does not carry them.
NoData == <<"none", "">>
Cmd(c, p, d) == [cmd |-> c, port |-> p, data |-> d]
CmdStart == Cmd("Start", 0, NoData)
CmdKill == Cmd("Kill", 0, NoData)
CmdConnect(p) == Cmd("Connect", p, NoData)
CmdDisconnect(p) == Cmd("Disconnect", p, NoData)
CmdVsockSend_mut(p, d) == Cmd("VsockRecv", p, NoData)
CmdVsockSend(p, d) == Cmd("VsockSend", p, d)
CmdVsockRecv(p) == Cmd("VsockRecv", p, NoData)
\* any variant handle_cmd has no arm for
CmdOther == Cmd("Other", 0, NoData)
NoCmd == Cmd("none", 0, NoData)

\* "start".as_bytes().to_vec() and friends
Token_mut(s) == <<"raw", "state">>
Token(s) == <<"raw", s>>
\* serde_json::to_string(&req): the JSON text of the create request
ReqStr(bundle) == <<"json", bundle>>

\* struct ContainerState
ContainerState(b, s, p) == [bundle |-> b, status |-> s, vsock_port |-> p]

\* HashMap::new()
EmptyMap == [c \in {} |-> ContainerState("", "Creating", 0)]
\* HashMap::insert
MapInsert(m, id, st) ==
    [c \in DOMAIN m \cup {id} |-> IF c = id THEN st ELSE m[c]]
\* HashMap::contains_key
contains_key_mut(m, id) == FALSE
contains_key(m, id) == id \in DOMAIN m
\* HashMap::get / get_mut returns None
is_none(m, id) == id \notin DOMAIN m
\* HashMap::remove
MapRemove_mut(m, id) == m
MapRemove(m, id) == [c \in DOMAIN m \ {id} |-> m[c]]

\* Results of an RPC
Ok == <<"Ok">>
Err(e) == <<"Err", e>>
\* api::Error
ContainerAlreadyExists == Err("ContainerAlreadyExists")
ContainerNotFound_mut == Err("ContainerAlreadyExists")
ContainerNotFound == Err("ContainerNotFound")
VmCommandFailed == Err("VmCommandFailed")
UnpextectedContainerStatus(s) == <<"Err", "UnpextectedContainerStatus", s>>
\* api::Response { container_id, status, pid: None, bundle }
Response_mut(id, s, b) == <<"Response", id, "Running", "None", b>>
Response(id, s, b) == <<"Response", id, s, "None", b>>
\* recv().await.unwrap() on a closed reply channel: the task panics, the
\* client gets no answer
Panicked == <<"Panicked">>
NoResult == <<"none">>

Ops == {"create", "delete", "kill", "start", "state", "connect"}

IdleTask == [pc |-> "idle", op |-> "none", id |-> "none", bundle |-> "",
             port |-> 0, wait |-> FALSE]
NoResp == [op |-> "none", id |-> "none", result |-> NoResult]

\* ------------------------------------------------------------ the RwLock
Unlocked == [writer |-> 0, readers |-> {}]
\* state_map.write().await can complete
CanWrite == lock.writer = 0 /\ lock.readers = {}
\* state_map.read().await can complete
CanRead_mut == TRUE
CanRead == lock.writer = 0
\* dropping the guard task h holds
Release(h) == [writer |-> IF lock.writer = h THEN 0 ELSE lock.writer,
               readers |-> lock.readers \ {h}]

\* ------------------------------------------------------ port allocation
RECURSIVE MaxPort(_, _)
\* the fold  port = max(port, state.vsock_port)  over state_map.values()
MaxPort(m, ids) ==
    IF ids = {} THEN DEFAULT_MIN_PORT - 1
    ELSE LET c == CHOOSE x \in ids : TRUE
             rest == MaxPort(m, ids \ {c})
         IN IF m[c].vsock_port > rest THEN m[c].vsock_port ELSE rest

AllocPort_mut(m) == DEFAULT_MIN_PORT + Cardinality(DOMAIN m)
AllocPort(m) == MaxPort(m, DOMAIN m) + 1

\* ------------------------------------------------- the state-machine table
\* match arms of ApiServer::start, kill, delete and connect
start_from_mut == {"Created", "Running"}
start_from == {"Created"}
kill_from_mut == {"Created", "Running", "Stopped"}
kill_from == {"Created", "Running"}
delete_from == {"Created", "Stopped"}
connect_from_mut == VmStatus
connect_from == {"Running"}
\* state.status = api::VmStatus::Running / Stopped
start_to == "Running"
kill_to_mut == "Created"
kill_to == "Stopped"
\* status of the entry create inserts
create_status == "Creating"

\* ------------------------------------------------------------- RPC tasks
\* the task returns res to its client and drops its guard
Done(h, res) ==
    /\ task' = [task EXCEPT ![h] = IdleTask]
    /\ resp' = [op |-> task[h].op, id |-> task[h].id, result |-> res]
    /\ lock' = Release(h)

\* the task takes the write guard and goes on to pc
HoldWrite(h, pc, port) ==
    /\ task' = [task EXCEPT ![h].pc = pc, ![h].port = port]
    /\ lock' = [lock EXCEPT !.writer = h]
    /\ resp' = resp

\* the task takes the read guard and goes on to pc
HoldRead(h, pc) ==
    /\ task' = [task EXCEPT ![h].pc = pc]
    /\ lock' = [lock EXCEPT !.readers = @ \cup {h}]
    /\ resp' = resp

\* the task goes on to pc, keeping its guard
Goto(h, pc) ==
    /\ task' = [task EXCEPT ![h].pc = pc, ![h].wait = FALSE]
    /\ UNCHANGED <<lock, resp>>

\* cmd_tx.send(c).await: Err when the receiver is gone; pending while the
\* channel is open and has no free slot
SendClosed_mut == ~cmd_open \/ Len(cmd_q) >= CmdCap
SendClosed == ~cmd_open
SendFull == cmd_open /\ Len(cmd_q) >= CmdCap
\* the channel takes command c
Enqueue(c) ==
    /\ cmd_q' = Append(cmd_q, c)
    /\ sent' = Append(sent, c)

\* the send is pending: the task is suspended until a slot is free or the
\* channel is closed
Suspend(h) ==
    /\ ~task[h].wait
    /\ task' = [task EXCEPT ![h].wait = TRUE]
    /\ UNCHANGED <<lock, resp>>

\* a client issues an RPC; tarpc runs each request in a task of its own (the
\* tasks are interchangeable: a request takes the first free one)
Call(h, op, id, max) ==
    /\ main_pc = "serving"
    /\ task[h].pc = "idle"
    /\ \A k \in Tasks : k < h => task[k].pc # "idle"
    /\ calls < max
    /\ calls' = calls + 1
    /\ task' = [task EXCEPT ![h] =
                     [pc |-> "lock", op |-> op, id |-> id,
                      bundle |-> IF op = "create" THEN NewBundle ELSE "",
                      port |-> 0, wait |-> FALSE]]
    /\ UNCHANGED <<state_map, lock, cmd_q, sent, cmd_open, data_q, data_open,
                   data_rx_open, vm_pc, vm_cmd, main_pc, resp, backend>>

\* ApiServer::create
create(h) ==
    LET t == task[h] IN
    /\ t.op = "create"
    /\ IF t.pc = "lock"
       THEN /\ CanWrite
            /\ IF contains_key(state_map, t.id)
               THEN Done(h, ContainerAlreadyExists)
               ELSE HoldWrite(h, "send1", AllocPort(state_map))
            /\ UNCHANGED <<state_map, cmd_q, sent, data_q>>
       ELSE IF t.pc = "send1"
       THEN /\ IF SendClosed
               THEN Done(h, VmCommandFailed) /\ UNCHANGED <<cmd_q, sent>>
               ELSE IF SendFull
               THEN Suspend(h) /\ UNCHANGED <<cmd_q, sent>>
               ELSE /\ Enqueue(CmdConnect(t.port))
                    /\ Goto(h, "send2")
            /\ UNCHANGED <<state_map, data_q>>
       ELSE IF t.pc = "send2"
       THEN /\ IF SendClosed
               THEN Done(h, VmCommandFailed) /\ UNCHANGED <<cmd_q, sent>>
               ELSE IF SendFull
               THEN Suspend(h) /\ UNCHANGED <<cmd_q, sent>>
               ELSE /\ Enqueue(CmdVsockSend(t.port, ReqStr(t.bundle)))
                    /\ Goto(h, "recv")
            /\ UNCHANGED <<state_map, data_q>>
       ELSE /\ t.pc = "recv"
            /\ IF data_q # <<>>
               THEN /\ data_q' = Tail(data_q)
                    /\ state_map' =
                         MapInsert(state_map, t.id,
                                   ContainerState(t.bundle, create_status,
                                                  Head(data_q)[1]))
                    /\ Done(h, Ok)
               ELSE /\ ~data_open
                    /\ Done(h, Panicked)
                    /\ UNCHANGED <<state_map, data_q>>
            /\ UNCHANGED <<cmd_q, sent>>
    /\ UNCHANGED <<cmd_open, data_open, data_rx_open, vm_pc, vm_cmd, main_pc,
                   calls, backend>>

\* ApiServer::delete
delete(h) ==
    LET t == task[h] IN
    /\ t.op = "delete"
    /\ IF t.pc = "lock"
       THEN /\ CanWrite
            /\ IF is_none(state_map, t.id)
               THEN Done(h, ContainerNotFound)
               ELSE IF state_map[t.id].status \in delete_from
               THEN HoldWrite(h, "send1", 0)
               ELSE Done(h, UnpextectedContainerStatus(state_map[t.id].status))
            /\ UNCHANGED <<state_map, cmd_q, sent>>
       ELSE IF t.pc = "send1"
       THEN /\ IF SendClosed
               THEN Done(h, VmCommandFailed) /\ UNCHANGED <<cmd_q, sent>>
               ELSE IF SendFull
               THEN Suspend(h) /\ UNCHANGED <<cmd_q, sent>>
               ELSE /\ Enqueue(CmdVsockSend(state_map[t.id].vsock_port,
                                                    Token("delete")))
                    /\ Goto(h, "send2")
            /\ UNCHANGED state_map
       ELSE /\ t.pc = "send2"
            /\ IF SendClosed
               THEN Done(h, VmCommandFailed) /\ UNCHANGED <<cmd_q, sent, state_map>>
               ELSE IF SendFull
               THEN Suspend(h) /\ UNCHANGED <<cmd_q, sent, state_map>>
               ELSE /\ Enqueue(CmdDisconnect(state_map[t.id].vsock_port))
                    /\ state_map' = MapRemove(state_map, t.id)
                    /\ Done(h, Ok)
    /\ UNCHANGED <<cmd_open, data_q, data_open, data_rx_open, vm_pc, vm_cmd,
                   main_pc, calls, backend>>

\* ApiServer::kill (kill_mut: the status written before the send)
kill_mut(h) ==
    LET t == task[h] IN
    /\ t.op = "kill"
    /\ IF t.pc = "lock"
       THEN /\ CanWrite
            /\ IF is_none(state_map, t.id)
               THEN Done(h, ContainerNotFound)
                    /\ UNCHANGED <<state_map, cmd_q, sent>>
               ELSE IF state_map[t.id].status \in kill_from
               THEN /\ HoldWrite(h, "send1", 0)
                    /\ state_map' = [state_map EXCEPT ![t.id].status = kill_to]
                    /\ UNCHANGED <<cmd_q, sent>>
               ELSE /\ Done(h, UnpextectedContainerStatus(
                                state_map[t.id].status))
                    /\ UNCHANGED <<state_map, cmd_q, sent>>
       ELSE /\ t.pc = "send1"
            /\ IF SendClosed
               THEN Done(h, VmCommandFailed) /\ UNCHANGED <<cmd_q, sent, state_map>>
               ELSE IF SendFull
               THEN Suspend(h) /\ UNCHANGED <<cmd_q, sent, state_map>>
               ELSE /\ Enqueue(CmdVsockSend(state_map[t.id].vsock_port,
                                                    Token("kill")))
                    /\ UNCHANGED state_map
                    /\ Done(h, Ok)
    /\ UNCHANGED <<cmd_open, data_q, data_open, data_rx_open, vm_pc, vm_cmd,
                   main_pc, calls, backend>>
kill(h) ==
    LET t == task[h] IN
    /\ t.op = "kill"
    /\ IF t.pc = "lock"
       THEN /\ CanWrite
            /\ IF is_none(state_map, t.id)
               THEN Done(h, ContainerNotFound)
               ELSE IF state_map[t.id].status \in kill_from
               THEN HoldWrite(h, "send1", 0)
               ELSE Done(h, UnpextectedContainerStatus(state_map[t.id].status))
            /\ UNCHANGED <<state_map, cmd_q, sent>>
       ELSE /\ t.pc = "send1"
            /\ IF SendClosed
               THEN Done(h, VmCommandFailed) /\ UNCHANGED <<cmd_q, sent, state_map>>
               ELSE IF SendFull
               THEN Suspend(h) /\ UNCHANGED <<cmd_q, sent, state_map>>
               ELSE /\ Enqueue(CmdVsockSend(state_map[t.id].vsock_port,
                                                    Token("kill")))
                    /\ state_map' = [state_map EXCEPT ![t.id].status = kill_to]
                    /\ Done(h, Ok)
    /\ UNCHANGED <<cmd_open, data_q, data_open, data_rx_open, vm_pc, vm_cmd,
                   main_pc, calls, backend>>

\* ApiServer::start
start(h) ==
    LET t == task[h] IN
    /\ t.op = "start"
    /\ IF t.pc = "lock"
       THEN /\ CanWrite
            /\ IF is_none(state_map, t.id)
               THEN Done(h, ContainerNotFound)
               ELSE IF state_map[t.id].status \in start_from
               THEN HoldWrite(h, "send1", 0)
               ELSE Done(h, UnpextectedContainerStatus(state_map[t.id].status))
            /\ UNCHANGED <<state_map, cmd_q, sent>>
       ELSE /\ t.pc = "send1"
            /\ IF SendClosed
               THEN Done(h, VmCommandFailed) /\ UNCHANGED <<cmd_q, sent, state_map>>
               ELSE IF SendFull
               THEN Suspend(h) /\ UNCHANGED <<cmd_q, sent, state_map>>
               ELSE /\ Enqueue(CmdVsockSend(state_map[t.id].vsock_port,
                                                    Token("start")))
                    /\ state_map' = [state_map EXCEPT ![t.id].status = start_to]
                    /\ Done(h, Ok)
    /\ UNCHANGED <<cmd_open, data_q, data_open, data_rx_open, vm_pc, vm_cmd,
                   main_pc, calls, backend>>

\* ApiServer::state
state(h) ==
    LET t == task[h] IN
    /\ t.op = "state"
    /\ IF t.pc = "lock"
       THEN /\ CanRead
            /\ IF is_none(state_map, t.id)
               THEN Done(h, ContainerNotFound)
               ELSE HoldRead(h, "send1")
            /\ UNCHANGED <<cmd_q, sent>>
       ELSE /\ t.pc = "send1"
            /\ IF SendClosed
               THEN Done(h, VmCommandFailed) /\ UNCHANGED <<cmd_q, sent>>
               ELSE IF SendFull
               THEN Suspend(h) /\ UNCHANGED <<cmd_q, sent>>
               ELSE /\ Enqueue(CmdVsockSend(state_map[t.id].vsock_port,
                                                    Token("state")))
                    /\ Done(h, Response(t.id, state_map[t.id].status,
                                        state_map[t.id].bundle))
    /\ UNCHANGED <<state_map, cmd_open, data_q, data_open, data_rx_open, vm_pc,
                   vm_cmd, main_pc, calls, backend>>

\* ApiServer::connect
connect(h) ==
    LET t == task[h] IN
    /\ t.op = "connect"
    /\ t.pc = "lock"
    /\ CanWrite
    /\ IF is_none(state_map, t.id)
       THEN Done(h, ContainerNotFound)
       ELSE IF state_map[t.id].status \in connect_from
       THEN Done(h, Ok)
       ELSE Done(h, UnpextectedContainerStatus(state_map[t.id].status))
    /\ UNCHANGED <<state_map, cmd_q, sent, cmd_open, data_q, data_open,
                   data_rx_open, vm_pc, vm_cmd, main_pc, calls, backend>>

\* ------------------------------------------------------------ the VM task
\* the VM task ends (vm_thread returns Err or panics): the future that owns
\* cmd_rx and data_tx is dropped, which closes both channels and discards
\* what the command channel still buffers
Terminate_mut ==
    /\ vm_pc' = "terminated"
    /\ vm_cmd' = NoCmd
    /\ UNCHANGED <<cmd_open, cmd_q>>
    /\ data_open' = FALSE
Terminate ==
    /\ vm_pc' = "terminated"
    /\ vm_cmd' = NoCmd
    /\ cmd_open' = FALSE
    /\ cmd_q' = <<>>
    /\ data_open' = FALSE

\* vm_thread up to the call of handle_cmd: serial socket, config, Vm::new
vm_thread(ok) ==
    /\ vm_pc = "init"
    /\ IF ok
       THEN /\ vm_pc' = "recv"
            /\ UNCHANGED <<vm_cmd, cmd_open, cmd_q, data_open>>
       ELSE Terminate
    /\ UNCHANGED <<state_map, lock, data_q, data_rx_open, main_pc, task, resp,
                   calls, sent, backend>>

\* cmd_rx.recv().await on a channel buffering q: the oldest message and what
\* stays buffered
mpsc_recv_mut(q) == [msg |-> q[Len(q)], rest |-> SubSeq(q, 1, Len(q) - 1)]
mpsc_recv(q) == [msg |-> Head(q), rest |-> Tail(q)]

\* handle_cmd: let cmd = cmd_rx.recv().await.ok_or_else(..)?  recv yields None
\* once the channel is empty and every sender is gone (main has returned)
handle_cmd_recv ==
    /\ vm_pc = "recv"
    /\ IF cmd_q # <<>>
       THEN /\ vm_cmd' = mpsc_recv(cmd_q).msg
            /\ cmd_q' = mpsc_recv(cmd_q).rest
            /\ vm_pc' = "call"
            /\ UNCHANGED <<cmd_open, data_open>>
       ELSE /\ main_pc = "exited"
            /\ Terminate
    /\ UNCHANGED <<state_map, lock, data_q, data_rx_open, main_pc, task, resp,
                   calls, sent, backend>>

\* the commands handle_cmd has a backend call for
BackendCmds == {"Start", "Kill", "Connect", "Disconnect", "VsockSend",
                "VsockRecv"}

\* the Vm method each match arm calls
VmMethod_mut(c) ==
    CASE c = "Start" -> "start"
      [] c = "Kill" -> "start"
      [] c = "Connect" -> "connect"
      [] c = "Disconnect" -> "disconnect"
      [] c = "VsockSend" -> "vsock_send"
      [] c = "VsockRecv" -> "vsock_recv"
VmMethod(c) ==
    CASE c = "Start" -> "start"
      [] c = "Kill" -> "kill"
      [] c = "Connect" -> "connect"
      [] c = "Disconnect" -> "disconnect"
      [] c = "VsockSend" -> "vsock_send"
      [] c = "VsockRecv" -> "vsock_recv"

\* one call on the Vm: the method, its arguments and whether it returned Ok
VmCall(c, ok) ==
    [call |-> VmMethod(c.cmd), port |-> c.port, data |-> c.data, ok |-> ok]

\* data_tx.send((port, data)).await? can return Err
ReplyClosed_mut == FALSE
ReplyClosed == ~data_rx_open

\* the loop goes back to cmd_rx.recv()
Loop ==
    /\ vm_pc' = "recv"
    /\ vm_cmd' = NoCmd
    /\ UNCHANGED <<cmd_open, cmd_q, data_open>>

\* handle_cmd: the match on the dequeued command; ok is the backend's answer
handle_cmd_call(ok) ==
    /\ vm_pc = "call"
    /\ IF vm_cmd.cmd \notin BackendCmds
       THEN Terminate /\ UNCHANGED <<data_q, backend>>
       ELSE /\ backend' = Append(backend, VmCall(vm_cmd, ok))
            /\ IF ~ok
               THEN Terminate /\ UNCHANGED data_q
               ELSE IF vm_cmd.cmd = "VsockRecv"
               THEN IF ReplyClosed
                    THEN Terminate /\ UNCHANGED data_q
                    ELSE /\ Len(data_q) < DataCap
                         /\ data_q' = Append(data_q,
                                             <<vm_cmd.port, Token("reply")>>)
                         /\ Loop
               ELSE Loop /\ UNCHANGED data_q
    /\ UNCHANGED <<state_map, lock, data_rx_open, main_pc, task, resp, calls,
                   sent>>

\* ------------------------------------------------------------------- main
\* main: cmd_tx.send(api::Command::Start).await? and then the accept loop;
\* when main returns, data_rx is dropped with it
main ==
    /\ main_pc = "start"
    /\ IF SendClosed
       THEN /\ main_pc' = "exited"
            /\ data_rx_open' = FALSE
            /\ UNCHANGED <<cmd_q, sent>>
       ELSE /\ ~SendFull
            /\ Enqueue(CmdStart)
            /\ main_pc' = "serving"
            /\ UNCHANGED data_rx_open
    /\ UNCHANGED <<state_map, lock, cmd_open, data_q, data_open, vm_pc,
                   vm_cmd, task, resp, calls, backend>>

\* ---------------------------------------------------------- specifications
\* the state around a registry m, a command channel that buffers q and a
\* reply channel whose receiver is alive or not (main holds the receiver, so
\* when it is gone main has returned)
InitOf(m, q, rx) ==
    /\ state_map = m
    /\ lock = Unlocked
    /\ cmd_q = q
    /\ cmd_open = TRUE
    /\ data_q = <<>>
    /\ data_open = TRUE
    /\ data_rx_open = rx
    /\ sent = q
    /\ backend = <<>>
    /\ vm_pc = "init"
    /\ vm_cmd = NoCmd
    /\ main_pc = IF rx THEN "start" ELSE "exited"
    /\ task = [h \in Tasks |-> IdleTask]
    /\ resp = NoResp
    /\ calls = 0

\* the state main builds around a registry m
InitWith(m) == InitOf(m, <<>>, TRUE)

\* main: let state_map = Arc::new(RwLock::new(HashMap::new()))
Init == InitWith(EmptyMap)

\* oks: the answers the backend can give; ids, max, tasks: the identifiers
\* the clients name, the number of RPCs they issue and the tasks serving them
Step(oks, ids, max, tasks) ==
    \/ \E ok \in oks : vm_thread(ok)
    \/ main
    \/ \E h \in tasks, op \in Ops, id \in ids : Call(h, op, id, max)
    \/ \E h \in Tasks : create(h)
    \/ \E h \in Tasks : delete(h)
    \/ \E h \in Tasks : kill(h)
    \/ \E h \in Tasks : start(h)
    \/ \E h \in Tasks : state(h)
    \/ \E h \in Tasks : connect(h)
    \/ handle_cmd_recv
    \/ \E ok \in oks : handle_cmd_call(ok)

Next == Step(BOOLEAN, Ids, MaxCalls, Tasks)

\* the daemon as main starts it
Spec == Init /\ [][Next]_vars

\* the registries an ApiServer can be handed (ApiServer { state_map, .. }):
\* any set of identifiers in any status, each with its own port
InitPort(c) == IF c = "c1" THEN DEFAULT_MIN_PORT ELSE DEFAULT_MIN_PORT + 1
InitBundle(c) == IF c = "c1" THEN "/tmp/b1" ELSE "/tmp/b2"
Registries ==
    UNION { { [c \in D |-> ContainerState(InitBundle(c), st[c], InitPort(c))]
              : st \in [D -> VmStatus] }
            : D \in SUBSET Ids }

InitApi == \E m \in Registries : InitWith(m)

\* the ApiServer over any registry
SpecApi == InitApi /\ [][Next]_vars

\* one container and one request at a time, enough RPCs to fill the command
\* channel
NextOne == Step(BOOLEAN, {"c1"}, MaxCallsOne, {1})
InitOne == \E m \in Registries : DOMAIN m \subseteq {"c1"} /\ InitWith(m)
SpecOne == InitOne /\ [][NextOne]_vars

\* the commands handle_cmd can be sent: every variant it has an arm for, for
\* the ports of two containers, and one it has none for
Commands ==
    {CmdStart, CmdKill, CmdConnect(DEFAULT_MIN_PORT),
     CmdDisconnect(DEFAULT_MIN_PORT),
     CmdVsockSend(DEFAULT_MIN_PORT, Token("state")),
     CmdVsockRecv(DEFAULT_MIN_PORT), CmdVsockRecv(DEFAULT_MIN_PORT + 1),
     CmdOther}
CmdStreams == UNION { [1..n -> Commands] : n \in 0..MaxQueued }
InitCmd == \E q \in CmdStreams, rx \in BOOLEAN : InitOf(EmptyMap, q, rx)

\* handle_cmd over any commands already buffered in its channel, with the
\* reply receiver alive or dropped, and the daemon around it
NextCmd == Step(BOOLEAN, {"c1"}, MaxCalls, {1})
SpecCmd == InitCmd /\ [][NextCmd]_vars

\* the daemon with a backend that never fails, every task and the dispatch
\* loop scheduled fairly
NextOk == Step({TRUE}, Ids, MaxCalls, Tasks)
Fairness ==
    /\ WF_vars(vm_thread(TRUE))
    /\ WF_vars(main)
    /\ WF_vars(handle_cmd_recv)
    /\ WF_vars(handle_cmd_call(TRUE))
    /\ \A h \in Tasks :
          WF_vars(create(h) \/ delete(h) \/ kill(h) \/ start(h) \/ state(h)
                  \/ connect(h))
SpecFair == Init /\ [][NextOk]_vars /\ Fairness

\* the ApiServer over a registry of one container, two requests at a time,
\* the backend free to fail; tokio runs every task that can go on
NextTwo == Step(BOOLEAN, {"c1"}, MaxCalls, Tasks)
TaskFairness ==
    \A h \in Tasks :
        WF_vars(create(h) \/ delete(h) \/ kill(h) \/ start(h) \/ state(h)
                \/ connect(h))
SpecDown == InitOne /\ [][NextTwo]_vars /\ TaskFairness

\* ------------------------------------------------------------ properties
\* task h returns to its client in this step
Returns(h) == task[h].pc # "idle" /\ task'[h].pc = "idle"
\* task h takes a step
Moves(h) == task'[h] # task[h]
\* the answer task h gives in this step is r
Answers(h, r) ==
    /\ Returns(h)
    /\ resp' = [op |-> task[h].op, id |-> task[h].id, result |-> r]
\* command c is buffered in the command channel or being executed
InFlight(c) == vm_cmd = c \/ \E i \in 1..Len(cmd_q) : cmd_q[i] = c
\* the ports of the registry are pairwise distinct
DistinctPorts ==
    \A c, d \in DOMAIN state_map :
        c # d => state_map[c].vsock_port # state_map[d].vsock_port

\* C2: two concurrent create calls with distinct, unregistered identifiers
\* both eventually return success and leave two entries with distinct
\* ports (backend never failing, fair scheduling).
C2_ConcurrentCreates ==
    \E h, k \in Tasks :
        /\ h # k
        /\ task[h].op = "create" /\ task[k].op = "create"
        /\ task[h].id # task[k].id
        /\ task[h].id \notin DOMAIN state_map
        /\ task[k].id \notin DOMAIN state_map
C2_AllCreatesSucceed ==
    C2_ConcurrentCreates ~>
        (/\ \A h \in Tasks : task[h].pc = "idle"
         /\ DOMAIN state_map = Ids
         /\ DistinctPorts)

\* C3: a container whose create is under way is eventually registered and,
\* the guest having acknowledged, reaches status Created (from which start
\* takes it to Running).
C3_CreateReachesCreated ==
    \A c \in Ids :
        (\E h \in Tasks : task[h].op = "create" /\ task[h].id = c
                          /\ c \notin DOMAIN state_map)
        ~> (c \in DOMAIN state_map /\ state_map[c].status = "Created")

\* C4: start on a registered container returns success exactly when its
\* status is Created and the send succeeds, and then the status is Running
\* and VsockSend(port, "start") is enqueued; a failed start changes nothing;
\* a start answered right after a successful start of the same container
\* fails with UnexpectedContainerStatus(Running).
C4_Start ==
    [][\A h \in Tasks :
        (task[h].op = "start" /\ Returns(h)
         /\ task[h].id \in DOMAIN state_map) =>
           LET c == task[h].id
               s == state_map[c].status
               p == state_map[c].vsock_port
           IN /\ (resp'.result = <<"Ok">>) <=> (s = "Created" /\ cmd_open)
              /\ resp'.result = <<"Ok">> =>
                   /\ state_map' = [state_map EXCEPT ![c].status = "Running"]
                   /\ cmd_q' = Append(cmd_q, Cmd("VsockSend", p,
                                                 <<"raw", "start">>))
              /\ resp'.result # <<"Ok">> => UNCHANGED <<state_map, cmd_q, sent>>
              /\ (resp.op = "start" /\ resp.id = c /\ resp.result = <<"Ok">>)
                   => resp'.result =
                        <<"Err", "UnpextectedContainerStatus", "Running">>
      ]_vars
\* a start was rejected with Running after a start of that container succeeded
C4_Witness ==
    /\ resp.op = "start"
    /\ resp.result = <<"Err", "UnpextectedContainerStatus", "Running">>
    /\ resp.id \in DOMAIN state_map
    /\ state_map[resp.id].status = "Running"
    /\ InFlight(Cmd("VsockSend", state_map[resp.id].vsock_port,
                    <<"raw", "start">>))

\* C5: kill on a registered container returns success exactly when its status
\* is Created or Running and the send succeeds, and then the status is
\* Stopped; kill on a Stopped container fails with
\* UnexpectedContainerStatus(Stopped).
C5_Kill ==
    [][\A h \in Tasks :
        (task[h].op = "kill" /\ Returns(h)
         /\ task[h].id \in DOMAIN state_map) =>
           LET c == task[h].id
               s == state_map[c].status
               p == state_map[c].vsock_port
           IN /\ (resp'.result = <<"Ok">>)
                   <=> (s \in {"Created", "Running"} /\ cmd_open)
              /\ resp'.result = <<"Ok">> =>
                   /\ state_map' = [state_map EXCEPT ![c].status = "Stopped"]
                   /\ cmd_q' = Append(cmd_q, Cmd("VsockSend", p,
                                                 <<"raw", "kill">>))
              /\ resp'.result # <<"Ok">> => UNCHANGED <<state_map, cmd_q, sent>>
              /\ s = "Stopped" =>
                   resp'.result =
                     <<"Err", "UnpextectedContainerStatus", "Stopped">>
      ]_vars
\* a kill was rejected with Stopped after a kill of that container succeeded
C5_Witness ==
    /\ resp.op = "kill"
    /\ resp.result = <<"Err", "UnpextectedContainerStatus", "Stopped">>
    /\ resp.id \in DOMAIN state_map
    /\ state_map[resp.id].status = "Stopped"
    /\ InFlight(Cmd("VsockSend", state_map[resp.id].vsock_port,
                    <<"raw", "kill">>))

\* C6: delete succeeds only from Created or Stopped and then removes exactly
\* its entry; an identifier enters the registry only by a create that
\* returns success; state on an identifier that is not registered, and so
\* any state answered after a successful delete of it, fails with
\* ContainerNotFound.
C6_Delete ==
    [][/\ \A h \in Tasks :
            /\ (task[h].op = "delete" /\ Returns(h)
                /\ resp'.result = <<"Ok">>) =>
                  /\ task[h].id \in DOMAIN state_map
                  /\ state_map[task[h].id].status \in {"Created", "Stopped"}
                  /\ DOMAIN state_map' = DOMAIN state_map \ {task[h].id}
                  /\ \A d \in DOMAIN state_map' : state_map'[d] = state_map[d]
            /\ (task[h].op = "state" /\ Returns(h)
                /\ (\/ task[h].id \notin DOMAIN state_map
                    \/ (resp.op = "delete" /\ resp.id = task[h].id
                        /\ resp.result = <<"Ok">>))) =>
                  resp'.result = <<"Err", "ContainerNotFound">>
       /\ \A c \in Ids :
            (c \notin DOMAIN state_map /\ c \in DOMAIN state_map') =>
               \E h \in Tasks : task[h].op = "create" /\ task[h].id = c
                                /\ Answers(h, <<"Ok">>)
      ]_vars
\* a state call was answered ContainerNotFound after the delete of that
\* container went through (its Disconnect is still in flight)
C6_Witness ==
    /\ resp.op = "state"
    /\ resp.result = <<"Err", "ContainerNotFound">>
    /\ resp.id \notin DOMAIN state_map
    /\ InFlight(Cmd("Disconnect", InitPort(resp.id), NoData))

\* C7: create with an identifier that is registered fails with
\* ContainerAlreadyExists, leaves the registry as it is and enqueues
\* no command.
C7_CreateExisting ==
    [][\A h \in Tasks :
        (task[h].op = "create" /\ task[h].id \in DOMAIN state_map
         /\ Moves(h)) =>
           /\ Answers(h, <<"Err", "ContainerAlreadyExists">>)
           /\ UNCHANGED <<state_map, cmd_q, sent>>
      ]_vars
\* a create of a registered identifier was rejected
C7_Witness ==
    /\ resp.op = "create"
    /\ resp.result = <<"Err", "ContainerAlreadyExists">>
    /\ resp.id \in DOMAIN state_map
    /\ state_map[resp.id].bundle # NewBundle

\* C8: delete, kill, start, state and connect on an identifier that is not
\* registered fail with ContainerNotFound, enqueue no command and leave the
\* registry as it is.
C8_NotFound ==
    [][\A h \in Tasks :
        (task[h].op \in {"delete", "kill", "start", "state", "connect"}
         /\ task[h].id \notin DOMAIN state_map /\ Moves(h)) =>
           /\ Answers(h, <<"Err", "ContainerNotFound">>)
           /\ UNCHANGED <<state_map, cmd_q, sent>>
      ]_vars
\* a call on an unknown identifier was rejected while another container is
\* registered
C8_Witness ==
    /\ resp.op \in {"delete", "kill", "start", "state", "connect"}
    /\ resp.result = <<"Err", "ContainerNotFound">>
    /\ resp.id \notin DOMAIN state_map
    /\ DOMAIN state_map # {}

\* C9: start, kill, delete and connect on a container whose status is outside
\* the operation's valid source states fail with the unexpected-status error
\* carrying that status, enqueue no command and leave the registry as it is.
C9_ValidFrom(op) ==
    CASE op = "start" -> {"Created"}
      [] op = "kill" -> {"Created", "Running"}
      [] op = "delete" -> {"Created", "Stopped"}
      [] op = "connect" -> {"Running"}
C9_UnexpectedStatus ==
    [][\A h \in Tasks :
        (/\ task[h].op \in {"start", "kill", "delete", "connect"}
         /\ task[h].id \in DOMAIN state_map
         /\ state_map[task[h].id].status \notin C9_ValidFrom(task[h].op)
         /\ Moves(h)) =>
           /\ Answers(h, <<"Err", "UnpextectedContainerStatus",
                           state_map[task[h].id].status>>)
           /\ UNCHANGED <<state_map, cmd_q, sent>>
      ]_vars
\* a connect was rejected with the status of its container
C9_Witness ==
    /\ resp.op = "connect"
    /\ resp.id \in DOMAIN state_map
    /\ state_map[resp.id].status # "Running"
    /\ resp.result = <<"Err", "UnpextectedContainerStatus",
                       state_map[resp.id].status>>

\* task h is at a cmd_tx.send(..).await
AtSend(h) == task[h].pc \in {"send1", "send2"}

InCreate(h) ==
    task[h].op = "create" /\ task[h].pc \in {"send1", "send2", "recv"}

\* C11: a create holds the registry write lock from its existence check until
\* it returns (after the reply and the insert, or on failure); while a create
\* is between its first send and its return no other handler takes the lock,
\* reads or writes the registry or enqueues a command: the other tasks only
\* receive requests and wait for the lock.
C11_CreateHoldsLock ==
    [][\A h \in Tasks :
        InCreate(h) =>
           /\ lock = [writer |-> h, readers |-> {}]
           /\ ~Returns(h) => lock' = lock
           /\ \A k \in Tasks \ {h} :
                 \/ task'[k] = task[k]
                 \/ task[k].pc = "idle" /\ task'[k].pc = "lock"
           /\ state_map' # state_map => Returns(h)
           /\ sent' # sent => Moves(h)
      ]_vars
\* a create awaits its reply, both its commands executed, while a state
\* request for whatever identifier waits for the lock
C11_Witness ==
    \E h, k \in Tasks :
        /\ InCreate(h)
        /\ task[h].pc = "recv"
        /\ Len(backend) = 3
        /\ task[k].op = "state"
        /\ task[k].pc = "lock"

\* backend call b is the call handle_cmd has to make for command c
CallFor(b, c) ==
    /\ <<c.cmd, b.call>> \in
          {<<"Start", "start">>, <<"Kill", "kill">>, <<"Connect", "connect">>,
           <<"Disconnect", "disconnect">>, <<"VsockSend", "vsock_send">>,
           <<"VsockRecv", "vsock_recv">>}
    /\ b.port = c.port
    /\ b.data = c.data

\* C12: the dispatch loop makes its backend calls in the order in which the
\* commands were enqueued by main and by all handlers: the sequence of
\* backend calls is always a prefix of the sequence of enqueued commands.
C12_CallsPrefixOfSent ==
    /\ Len(backend) <= Len(sent)
    /\ \A i \in 1..Len(backend) : CallFor(backend[i], sent[i])
\* three calls made, the last two with different bytes, two different
\* commands buffered behind them, two requests issued
C12_Witness ==
    /\ Len(backend) >= 3
    /\ backend[2].data # backend[3].data
    /\ Len(cmd_q) >= 2
    /\ cmd_q[1] # cmd_q[2]
    /\ calls = 2

\* the command enqueued in this step
NewCmd == sent'[Len(sent')]
\* task h enqueues a command in this step
Sends(h) == Moves(h) /\ Len(sent') = Len(sent) + 1
\* one more than the largest port of registry m, 1234 when m is empty
PortAbove(m) ==
    IF DOMAIN m = {} THEN 1234
    ELSE CHOOSE p \in {m[c].vsock_port + 1 : c \in DOMAIN m} :
            \A d \in DOMAIN m : m[d].vsock_port < p

\* the allocation half of C13: the port of the Connect and of the VsockSend a
\* create enqueues is max+1 over the registry, 1234 when it is empty
C13_MaxPlusOne ==
    [][\A h \in Tasks :
        (task[h].op = "create" /\ Sends(h)) =>
           /\ NewCmd.cmd \in {"Connect", "VsockSend"}
           /\ NewCmd.port = PortAbove(state_map)
      ]_vars
\* C13: each create allocates max+1 (1234 on the empty registry) for its
\* Connect and VsockSend, and creates with distinct identifiers leave entries
\* with unique ports, the first two being 1234 and 1235 (backend never
\* failing, fair scheduling).
C13_CreatesGetPorts ==
    /\ C13_MaxPlusOne
    /\ \A c \in Ids :
          (\E h \in Tasks : task[h].op = "create" /\ task[h].id = c
                            /\ c \notin DOMAIN state_map)
          ~> (/\ c \in DOMAIN state_map
              /\ state_map[c].vsock_port \in {1234, 1235}
              /\ DistinctPorts)

\* the ports freed so far: delete enqueues Disconnect(port) in the step that
\* removes the entry
Freed == {sent[i].port : i \in {j \in 1..Len(sent) : sent[j].cmd = "Disconnect"}}
\* the ports creates have allocated and announced so far
Allocated == {sent[i].port : i \in {j \in 1..Len(sent) : sent[j].cmd = "Connect"}}
\* task h, in create, enqueues its Connect in this step
Allocates(h) ==
    task[h].op = "create" /\ Sends(h) /\ NewCmd.cmd = "Connect"

C15_OneCallPerCommand ==
    [][/\ \A i \in 1..(Len(backend) - 1) : backend[i].ok
       /\ backend' # backend =>
             /\ vm_pc = "call"
             /\ Len(backend') = Len(backend) + 1
             /\ SubSeq(backend', 1, Len(backend)) = backend
             /\ CallFor(backend'[Len(backend')], vm_cmd)
             /\ vm_pc' = IF backend'[Len(backend')].ok
                            /\ (vm_cmd.cmd # "VsockRecv" \/ data_rx_open)
                         THEN "recv" ELSE "terminated"
       /\ (vm_pc = "call" /\ vm_pc' # "call" /\ vm_cmd.cmd # "Other") =>
             Len(backend') = Len(backend) + 1
       /\ vm_pc # "call" => backend' = backend
       /\ vm_pc = "terminated" =>
             /\ vm_pc' = "terminated"
             /\ UNCHANGED <<backend, vm_cmd, cmd_q, sent>>
      ]_vars
\* the loop has terminated on the failure of its third call, after a kill and
\* a vsock_recv that succeeded, leaving an enqueued command without its call
C15_Witness ==
    /\ vm_pc = "terminated"
    /\ Len(backend) = 3
    /\ backend[1].call = "kill"
    /\ backend[2].call = "vsock_recv"
    /\ ~backend[3].ok
    /\ Len(sent) > 3

\* the loop makes the vsock_recv call of a dequeued VsockRecv in this step
RecvCall ==
    vm_pc = "call" /\ vm_cmd.cmd = "VsockRecv" /\ backend' # backend

\* C16: the reply queue gets an entry only from a VsockRecv(port) whose
\* backend call succeeded: exactly one entry (port, bytes), appended behind
\* the replies of the VsockRecv commands processed before; a failed
\* vsock_recv appends nothing, and a VsockRecv processed when the reply queue
\* is closed terminates the loop.
C16_RepliesFromVsockRecv ==
    [][/\ Len(data_q') > Len(data_q) =>
             /\ RecvCall
             /\ backend'[Len(backend')].ok
       /\ RecvCall =>
             IF backend'[Len(backend')].ok /\ data_rx_open
             THEN /\ Len(data_q') = Len(data_q) + 1
                  /\ SubSeq(data_q', 1, Len(data_q)) = data_q
                  /\ data_q'[Len(data_q')][1] = vm_cmd.port
                  /\ vm_pc' = "recv"
             ELSE /\ data_q' = data_q
                  /\ vm_pc' = "terminated"
      ]_vars
\* two replies wait in the order of their two VsockRecv commands
C16_Witness ==
    /\ Len(backend) >= 2
    /\ backend[1] = [call |-> "vsock_recv", port |-> 1235,
                     data |-> <<"none", "">>, ok |-> TRUE]
    /\ backend[2] = [call |-> "vsock_recv", port |-> 1234,
                     data |-> <<"none", "">>, ok |-> TRUE]
    /\ Len(data_q) = 2
    /\ data_q[1][1] = 1235
    /\ data_q[2][1] = 1234
\* a VsockRecv whose call succeeded found the reply queue closed
C16_ClosedReply ==
    /\ ~data_rx_open
    /\ vm_pc = "terminated"
    /\ backend # <<>>
    /\ backend[Len(backend)].call = "vsock_recv"
    /\ backend[Len(backend)].ok

\* the guest command of the table for operation op on port p
GuestSend(op, p) == [cmd |-> "VsockSend", port |-> p, data |-> <<"raw", op>>]

\* C17: an operation that passes validation enqueues exactly the commands of
\* the state-machine table, in order and for one port: create Connect(p) then
\* VsockSend(p, request) before it awaits the reply; start, kill and state
\* one VsockSend(p, token), with which they succeed; delete
\* VsockSend(p, "delete") then Disconnect(p), with which it removes the entry
\* and succeeds; connect nothing. Between the two commands of a create or of
\* a delete no other command is enqueued.
C17_TableCommands ==
    [][\A h \in Tasks :
        LET t == task[h]
            last == sent[Len(sent)]
        IN
        /\ (t.op \in {"create", "delete"} /\ t.pc = "send2") =>
              (sent' # sent => Sends(h))
        /\ Moves(h) =>
              /\ Len(sent') \in {Len(sent), Len(sent) + 1}
              /\ (Sends(h) /\ t.op = "create") =>
                    \/ /\ t.pc = "send1"
                       /\ NewCmd = [cmd |-> "Connect",
                                    port |-> PortAbove(state_map),
                                    data |-> <<"none", "">>]
                       /\ task'[h].pc = "send2"
                    \/ /\ t.pc = "send2"
                       /\ last.cmd = "Connect"
                       /\ NewCmd = [cmd |-> "VsockSend", port |-> last.port,
                                    data |-> <<"json", t.bundle>>]
                       /\ task'[h].pc = "recv"
              /\ (t.op = "create" /\ t.pc = "recv") => sent' = sent
              /\ (Sends(h) /\ t.op \in {"start", "kill", "state"}) =>
                    /\ t.pc = "send1"
                    /\ NewCmd = GuestSend(t.op, state_map[t.id].vsock_port)
                    /\ Returns(h)
                    /\ resp'.result[1] \in {"Ok", "Response"}
              /\ (Sends(h) /\ t.op = "delete") =>
                    \/ /\ t.pc = "send1"
                       /\ NewCmd =
                             GuestSend("delete", state_map[t.id].vsock_port)
                       /\ task'[h].pc = "send2"
                       /\ state_map' = state_map
                    \/ /\ t.pc = "send2"
                       /\ last =
                             GuestSend("delete", state_map[t.id].vsock_port)
                       /\ NewCmd = [cmd |-> "Disconnect",
                                    port |-> state_map[t.id].vsock_port,
                                    data |-> <<"none", "">>]
                       /\ t.id \notin DOMAIN state_map'
                       /\ Answers(h, <<"Ok">>)
              /\ (Returns(h) /\ resp'.result[1] \in {"Ok", "Response"}
                  /\ t.op \in {"start", "kill", "state", "delete"}) =>
                    Sends(h)
              /\ t.op = "connect" => sent' = sent
      ]_vars
\* a delete and then a create have enqueued their two commands each, back to
\* back
C17_Witness ==
    \E i \in 1..Len(sent) :
        /\ i + 3 <= Len(sent)
        /\ sent[i].cmd = "VsockSend"
        /\ sent[i].data = <<"raw", "delete">>
        /\ sent[i + 1] = [cmd |-> "Disconnect", port |-> sent[i].port,
                          data |-> <<"none", "">>]
        /\ sent[i + 2].cmd = "Connect"
        /\ sent[i + 3].cmd = "VsockSend"
        /\ sent[i + 3].port = sent[i + 2].port
        /\ sent[i + 3].data[1] = "json"

\* C18: state is valid from every status: from its lock to its return the
\* registry does not change, it never fails on the status, and when its send
\* succeeds it answers the identifier, the status and the bundle the registry
\* holds, and no pid.
C18_State ==
    [][\A h \in Tasks :
        LET id == task[h].id IN
        (task[h].op = "state" /\ task[h].pc # "idle") =>
           /\ task[h].pc = "send1" => state_map' = state_map
           /\ Moves(h) => state_map' = state_map
           /\ Returns(h) =>
                 resp'.result =
                    IF id \notin DOMAIN state_map
                    THEN <<"Err", "ContainerNotFound">>
                    ELSE IF ~cmd_open
                    THEN <<"Err", "VmCommandFailed">>
                    ELSE <<"Response", id, state_map[id].status, "None",
                           state_map[id].bundle>>
      ]_vars
\* state has answered for a container that is, and stays, in Creating
C18_Witness ==
    /\ resp.op = "state"
    /\ resp.id \in DOMAIN state_map
    /\ state_map[resp.id].status = "Creating"
    /\ resp.result = <<"Response", resp.id, "Creating", "None",
                       state_map[resp.id].bundle>>

\* C19: neither main nor any handler ever enqueues VsockRecv, so the reply
\* queue is always empty; a create that has sent its Connect and VsockSend
\* gets no reply and never answers success, and the registry stays empty.
C19_NoReplyEver ==
    /\ \A i \in 1..Len(sent) : sent[i].cmd # "VsockRecv"
    /\ \A i \in 1..Len(backend) : backend[i].call # "vsock_recv"
    /\ data_q = <<>>
    /\ DOMAIN state_map = {}
    /\ ~(resp.op = "create" /\ resp.result = <<"Ok">>)
\* a create waits for its reply, its Connect and its VsockSend executed by
\* the backend, the loop idle and every RPC of the run issued
C19_Witness ==
    \E h \in Tasks :
        /\ task[h].op = "create"
        /\ task[h].pc = "recv"
        /\ Len(backend) = 3
        /\ backend[2].call = "connect" /\ backend[2].ok
        /\ backend[3].call = "vsock_send" /\ backend[3].ok
        /\ vm_pc = "recv"
        /\ cmd_q = <<>>
        /\ calls = MaxCalls

\* C20: a start, kill, delete or state that answers VmCommandFailed leaves
\* the registry as it found it: from taking the lock to that answer no step,
\* its own included, changes the registry, so the status start or kill
\* validated is still there and the entry of delete is still in place, also
\* when VsockSend(port, "delete") was enqueued and only the Disconnect failed.
C20_FailedSendKeepsRegistry ==
    [][\A h \in Tasks :
        (task[h].op \in {"start", "kill", "delete", "state"}
         /\ task[h].pc # "idle") =>
           /\ (Moves(h) /\ ~(Returns(h) /\ resp'.result = <<"Ok">>)) =>
                 state_map' = state_map
           /\ (task[h].pc \in {"send1", "send2"} /\ ~Moves(h)) =>
                 state_map' = state_map
           /\ Answers(h, <<"Err", "VmCommandFailed">>) =>
                 /\ state_map' = state_map
                 /\ task[h].id \in DOMAIN state_map'
                 /\ UNCHANGED <<sent, cmd_q>>
      ]_vars
\* delete has answered VmCommandFailed after its VsockSend(port, "delete")
\* was enqueued, and its entry is in place, in Stopped as before
C20_Witness ==
    /\ resp = [op |-> "delete", id |-> "c2",
               result |-> <<"Err", "VmCommandFailed">>]
    /\ "c2" \in DOMAIN state_map
    /\ state_map["c2"].status = "Stopped"
    /\ sent # <<>>
    /\ sent[Len(sent)] = [cmd |-> "VsockSend",
                          port |-> state_map["c2"].vsock_port,
                          data |-> <<"raw", "delete">>]

\* the steps by which a registered container changes status, with the
\* operation that takes each
StatusSteps ==
    {<<"Created", "Running", "start">>, <<"Created", "Stopped", "kill">>,
     <<"Running", "Stopped", "kill">>}

\* C21: the status of a registered container changes only by Created ->
\* Running (a start that succeeds) and Created -> Stopped, Running -> Stopped
\* (a kill that succeeds); an entry is inserted in Creating, by a create that
\* succeeds; no step sets a status to Created, and a container in Creating or
\* Stopped keeps its status for as long as it is registered.
C21_StatusSteps ==
    [][\A c \in DOMAIN state_map' :
        IF c \in DOMAIN state_map
        THEN state_map'[c].status # state_map[c].status =>
                \E h \in Tasks :
                    /\ task[h].id = c
                    /\ Answers(h, <<"Ok">>)
                    /\ <<state_map[c].status, state_map'[c].status,
                         task[h].op>> \in StatusSteps
        ELSE /\ state_map'[c].status = "Creating"
             /\ \E h \in Tasks :
                    /\ task[h].id = c
                    /\ task[h].op = "create"
                    /\ Answers(h, <<"Ok">>)
      ]_vars
\* a container has gone from Created to Running and on to Stopped, next to
\* one that is still in Creating
C21_Witness ==
    \E c, d \in DOMAIN state_map, i, j \in 1..Len(sent) :
        /\ i < j
        /\ sent[i] = [cmd |-> "VsockSend", port |-> state_map[c].vsock_port,
                      data |-> <<"raw", "start">>]
        /\ sent[j] = [cmd |-> "VsockSend", port |-> state_map[c].vsock_port,
                      data |-> <<"raw", "kill">>]
        /\ state_map[c].status = "Stopped"
        /\ state_map[d].status = "Creating"

\* a create has inserted its entry, in Creating, and start has been refused
\* on it
C21_Inserted ==
    /\ "c1" \in DOMAIN state_map
    /\ state_map["c1"].status = "Creating"
    /\ resp = [op |-> "start", id |-> "c1",
               result |-> <<"Err", "UnpextectedContainerStatus", "Creating">>]

\* C22: once the dispatch loop has terminated, the command channel and the
\* reply channel are closed and nothing is buffered for the loop; a call
\* that then reaches a send (a start, kill, delete or state on a container
\* in a valid source state, a create of a new identifier) neither waits nor
\* enqueues: it answers VmCommandFailed and leaves the registry as it is;
\* and no call stays pending for ever.
C22_TerminatedFailsCalls ==
    /\ [][vm_pc = "terminated" =>
            /\ ~cmd_open /\ ~data_open /\ cmd_q = <<>>
            /\ \A h \in Tasks :
                  /\ (Moves(h) /\ task[h].pc = "lock"
                      /\ task'[h].pc # "send1") =>
                        CASE task[h].op = "create" ->
                                task[h].id \in DOMAIN state_map
                          [] task[h].op = "start" ->
                                ~(task[h].id \in DOMAIN state_map
                                  /\ state_map[task[h].id].status = "Created")
                          [] task[h].op = "kill" ->
                                ~(task[h].id \in DOMAIN state_map
                                  /\ state_map[task[h].id].status
                                        \in {"Created", "Running"})
                          [] task[h].op = "delete" ->
                                ~(task[h].id \in DOMAIN state_map
                                  /\ state_map[task[h].id].status
                                        \in {"Created", "Stopped"})
                          [] task[h].op = "state" ->
                                task[h].id \notin DOMAIN state_map
                          [] OTHER -> TRUE
                  /\ (Moves(h) /\ AtSend(h)) =>
                        /\ Answers(h, <<"Err", "VmCommandFailed">>)
                        /\ UNCHANGED <<state_map, sent, cmd_q>>
        ]_vars
    /\ \A h \in Tasks :
          (vm_pc = "terminated" /\ task[h].pc # "idle")
             ~> (task[h].pc = "idle")
\* the loop terminated on the failure of its first call, before any handler
\* had enqueued a command, and a start on the container in Created has been
\* answered VmCommandFailed, the container still in Created
C22_Witness ==
    /\ vm_pc = "terminated"
    /\ Len(sent) = 1
    /\ Len(backend) = 1
    /\ ~backend[1].ok
    /\ resp = [op |-> "start", id |-> "c1",
               result |-> <<"Err", "VmCommandFailed">>]
    /\ "c1" \in DOMAIN state_map
    /\ state_map["c1"].status = "Created"

====
